---------------------------- MODULE Spec2Model ----------------------------
(***************************************************************************)
(* Model of the confidence-scoring and parlay-composition core of the      *)
(* sports betting backend:                                                 *)
(*   src/advanced_predictor.py  AdvancedPredictor                          *)
(*   src/app/predictor.py       BettingPredictor                           *)
(*   src/app/config.py          Config                                     *)
(*                                                                         *)
(* Python floats are modelled as exact rationals (sign, numerator,         *)
(* denominator) extended with the IEEE values inf and nan that numpy       *)
(* scalar division produces.  Numerators and denominators are naturals of  *)
(* arbitrary size, kept as little-endian sequences of base-10000 limbs,    *)
(* because products of five to eight two-decimal confidences do not fit a  *)
(* machine integer.  np.std is the one irrational operation; it is         *)
(* rounded down to a multiple of 1/(StdResolution * n).                    *)
(***************************************************************************)
EXTENDS Integers, Sequences, FiniteSets, TLC

(***************************************************************************)
(* Naturals of arbitrary size.                                             *)
(***************************************************************************)
RECURSIVE NatToBig(_)
NatToBig(x) ==
    IF x = 0 THEN << >> ELSE <<x % 10000>> \o NatToBig(x \div 10000)

RECURSIVE BigTrim(_)
BigTrim(s) ==
    IF s = << >> THEN s
    ELSE IF s[Len(s)] = 0 THEN BigTrim(SubSeq(s, 1, Len(s) - 1)) ELSE s

RECURSIVE BigAddC(_, _, _)
BigAddC(a, b, c) ==
    IF a = << >> /\ b = << >>
    THEN IF c = 0 THEN << >> ELSE <<c>>
    ELSE LET x == (IF a = << >> THEN 0 ELSE Head(a))
                  + (IF b = << >> THEN 0 ELSE Head(b)) + c
         IN  <<x % 10000>>
             \o BigAddC(IF a = << >> THEN a ELSE Tail(a),
                        IF b = << >> THEN b ELSE Tail(b), x \div 10000)

BigAdd(a, b) == BigAddC(a, b, 0)

\* a - b for a >= b
RECURSIVE BigSubC(_, _, _)
BigSubC(a, b, c) ==
    IF a = << >> THEN << >>
    ELSE LET x == Head(a) - (IF b = << >> THEN 0 ELSE Head(b)) - c
         IN  <<(x + 10000) % 10000>>
             \o BigSubC(Tail(a), IF b = << >> THEN b ELSE Tail(b),
                        IF x < 0 THEN 1 ELSE 0)

BigSub(a, b) == BigTrim(BigSubC(a, b, 0))

\* a * m + c for one limb m
RECURSIVE BigMulLimb(_, _, _)
BigMulLimb(a, m, c) ==
    IF a = << >> THEN (IF c = 0 THEN << >> ELSE <<c>>)
    ELSE LET x == Head(a) * m + c
         IN  <<x % 10000>> \o BigMulLimb(Tail(a), m, x \div 10000)

RECURSIVE BigMul(_, _)
BigMul(a, b) ==
    IF a = << >> \/ b = << >> THEN << >>
    ELSE IF Len(b) = 1 THEN BigTrim(BigMulLimb(a, b[1], 0))
    ELSE LET rest == BigMul(a, Tail(b))
         IN  BigAdd(BigTrim(BigMulLimb(a, Head(b), 0)),
                    IF rest = << >> THEN rest ELSE <<0>> \o rest)

\* -1, 0, 1 as a < b, a = b, a > b
RECURSIVE BigCmpFrom(_, _, _)
BigCmpFrom(a, b, i) ==
    IF i = 0 THEN 0
    ELSE IF a[i] < b[i] THEN -1
    ELSE IF a[i] > b[i] THEN 1
    ELSE BigCmpFrom(a, b, i - 1)

BigCmp(a, b) ==
    IF Len(a) < Len(b) THEN -1
    ELSE IF Len(a) > Len(b) THEN 1
    ELSE BigCmpFrom(a, b, Len(a))

\* the value of a natural of at most two limbs
BigSmall(a) ==
    IF a = << >> THEN 0
    ELSE IF Len(a) = 1 THEN a[1] ELSE a[1] + 10000 * a[2]

RECURSIVE Gcd(_, _)
Gcd(a, b) == IF b = 0 THEN a ELSE Gcd(b, a % b)

(***************************************************************************)
(* Floats: finite rationals, inf and nan.                                  *)
(***************************************************************************)
\* lowest terms when numerator and denominator are below 10^8
Reduce(sg, n, d) ==
    IF n = << >> THEN [k |-> "fin", sg |-> 0, num |-> << >>, den |-> <<1>>]
    ELSE IF Len(n) <= 2 /\ Len(d) <= 2
    THEN LET g == Gcd(BigSmall(n), BigSmall(d))
         IN  [k |-> "fin", sg |-> sg, num |-> NatToBig(BigSmall(n) \div g),
              den |-> NatToBig(BigSmall(d) \div g)]
    ELSE [k |-> "fin", sg |-> sg, num |-> n, den |-> d]

\* the float a / b for machine integers a and b > 0
Q(a, b) ==
    Reduce(IF a > 0 THEN 1 ELSE IF a < 0 THEN -1 ELSE 0,
           NatToBig(IF a < 0 THEN -a ELSE a), NatToBig(b))

NaN == [k |-> "nan", sg |-> 0, num |-> << >>, den |-> <<1>>]
Inf(sg) == [k |-> "inf", sg |-> sg, num |-> <<1>>, den |-> << >>]
Zero == Q(0, 1)
One == Q(1, 1)

IsFinite(x) == x.k = "fin"
IsNaN(x) == x.k = "nan"

FNeg(x) == [x EXCEPT !.sg = -x.sg]

\* -1, 0, 1 for two values neither of which is nan
FCmp(x, y) ==
    IF x.k = "inf" \/ y.k = "inf"
    THEN LET a == IF x.k = "inf" THEN x.sg ELSE 0
             b == IF y.k = "inf" THEN y.sg ELSE 0
         IN  IF a < b THEN -1 ELSE IF a > b THEN 1 ELSE 0
    ELSE IF x.sg # y.sg THEN (IF x.sg < y.sg THEN -1 ELSE 1)
    ELSE IF x.sg = 0 THEN 0
    ELSE x.sg * BigCmp(BigMul(x.num, y.den), BigMul(y.num, x.den))

\* Python's comparison operators: every comparison with nan is false
FLt(x, y) == ~IsNaN(x) /\ ~IsNaN(y) /\ FCmp(x, y) < 0
FLe(x, y) == ~IsNaN(x) /\ ~IsNaN(y) /\ FCmp(x, y) <= 0
FGt(x, y) == FLt(y, x)
FGe(x, y) == FLe(y, x)
FEq(x, y) == ~IsNaN(x) /\ ~IsNaN(y) /\ FCmp(x, y) = 0

\* x + y for finite non-zero x and y brought to the denominator d with the
\* numerators a and b
FAddAligned(x, y, a, b, d) ==
    IF x.sg = y.sg THEN Reduce(x.sg, BigAdd(a, b), d)
    ELSE IF BigCmp(a, b) = 0 THEN Zero
    ELSE IF BigCmp(a, b) > 0 THEN Reduce(x.sg, BigSub(a, b), d)
    ELSE Reduce(y.sg, BigSub(b, a), d)

FAdd(x, y) ==
    IF IsNaN(x) \/ IsNaN(y) THEN NaN
    ELSE IF x.k = "inf"
    THEN (IF y.k = "inf" /\ y.sg # x.sg THEN NaN ELSE x)
    ELSE IF y.k = "inf" THEN y
    ELSE IF x.sg = 0 THEN y
    ELSE IF y.sg = 0 THEN x
    ELSE IF x.den = y.den THEN FAddAligned(x, y, x.num, y.num, x.den)
    ELSE FAddAligned(x, y, BigMul(x.num, y.den), BigMul(y.num, x.den),
                     BigMul(x.den, y.den))

FSub(x, y) == FAdd(x, FNeg(y))

FMul(x, y) ==
    IF IsNaN(x) \/ IsNaN(y) THEN NaN
    ELSE IF x.k = "inf" \/ y.k = "inf"
    THEN (IF x.sg * y.sg = 0 THEN NaN ELSE Inf(x.sg * y.sg))
    ELSE IF x.sg * y.sg = 0 THEN Zero
    ELSE Reduce(x.sg * y.sg, BigMul(x.num, y.num), BigMul(x.den, y.den))

\* the division of numpy scalars: x / 0 is inf or nan (with a warning), not
\* an exception
FDiv(x, y) ==
    IF IsNaN(x) \/ IsNaN(y) THEN NaN
    ELSE IF y.k = "inf" THEN (IF x.k = "inf" THEN NaN ELSE Zero)
    ELSE IF x.k = "inf" THEN Inf(IF y.sg < 0 THEN -x.sg ELSE x.sg)
    ELSE IF y.sg = 0 THEN (IF x.sg = 0 THEN NaN ELSE Inf(x.sg))
    ELSE IF x.sg = 0 THEN Zero
    ELSE Reduce(x.sg * y.sg, BigMul(x.num, y.den), BigMul(x.den, y.num))

\* Python's min(a, b) and max(a, b): b only when b < a (b > a), so a nan
\* first argument is returned and a nan second argument is dropped
PyMin(a, b) == IF FLt(b, a) THEN b ELSE a
PyMax(a, b) == IF FGt(b, a) THEN b ELSE a

\* the largest q in lo..hi with b * q <= r
RECURSIVE BigDigit(_, _, _, _)
BigDigit(r, b, lo, hi) ==
    IF lo >= hi THEN lo
    ELSE LET mid == (lo + hi + 1) \div 2
         IN  IF BigCmp(BigTrim(BigMulLimb(b, mid, 0)), r) <= 0
             THEN BigDigit(r, b, mid, hi)
             ELSE BigDigit(r, b, lo, mid - 1)

\* long division of a[1..i] (with the remainder r of the higher limbs) by
\* b # 0: <<quotient, remainder>>
RECURSIVE BigDivMod(_, _, _, _, _)
BigDivMod(a, b, i, r, q) ==
    IF i = 0 THEN <<BigTrim(q), r>>
    ELSE LET r1 == BigTrim(<<a[i]>> \o r)
             d == BigDigit(r1, b, 0, 9999)
         IN  BigDivMod(a, b, i - 1,
                       BigSub(r1, BigTrim(BigMulLimb(b, d, 0))), <<d>> \o q)

RECURSIVE Pow10(_)
Pow10(n) == IF n = 0 THEN <<1>> ELSE BigTrim(BigMulLimb(Pow10(n - 1), 10, 0))

\* the quotient q of a division by den, with remainder r, to the nearest
\* integer, a tie to the even one
RoundNearestEven(q, r, den) ==
    IF \/ BigCmp(BigAdd(r, r), den) > 0
       \/ BigCmp(BigAdd(r, r), den) = 0 /\ q # << >> /\ q[1] % 2 = 1
    THEN BigAdd(q, <<1>>) ELSE q

\* qr[1] + qr[2] / den to the nearest integer, over 10^ndigits
RoundedFrom(sg, qr, den, ndigits) ==
    Reduce(sg, RoundNearestEven(qr[1], qr[2], den), Pow10(ndigits))

\* x = n / (x.den * 10^ndigits) rounded to ndigits places
RoundQuotient(x, ndigits, n) ==
    RoundedFrom(x.sg, BigDivMod(n, x.den, Len(n), << >>, << >>), x.den,
                ndigits)

\* Python's round(x, ndigits) of a finite x: to the nearest multiple of
\* 10^-ndigits, a tie of the exact value to the even one
PyRound(x, ndigits) ==
    IF x.sg = 0 THEN Zero
    ELSE RoundQuotient(x, ndigits, BigMul(x.num, Pow10(ndigits)))

(***************************************************************************)
(* Bounds of the checked inputs.                                           *)
(***************************************************************************)
\* longest history supplied to an analysis (the windows are 20 and 15)
MaxGames == 22
\* np.std is rounded down to a multiple of 1 / (StdResolution * n)
StdResolution == 100
\* longest pool of mixed entries supplied to a parlay composer
MaxPool == 6
\* longest pool of like entries supplied to a parlay composer
MaxLongPool == 10
\* the most games the odds feed delivers for one daily update
MaxFetched == 5

(***************************************************************************)
(* State: one caller invoking the operations of the two predictor objects. *)
(***************************************************************************)
VARIABLES
    pc,        \* "idle", "called" (arguments bound), "returned"
    op,        \* the operation invoked
    args,      \* its arguments, as the caller holds them
    result,    \* its return value
    frame,     \* the local variables of the call when it returned
    advanced,  \* the fields of the AdvancedPredictor object
    betting    \* the fields of the BettingPredictor object

vars == <<pc, op, args, result, frame, advanced, betting>>

\* AdvancedPredictor.__init__
AdvancedPredictorInit ==
    [min_confidence |-> Q(90, 100), min_odds |-> Q(110, 100),
     max_odds |-> Q(150, 100), min_games_sample |-> 10]

\* BettingPredictor.__init__: three empty dicts
BettingPredictorInit ==
    [models |-> << >>, scalers |-> << >>, historical_data |-> << >>]

NoArgs == [none |-> TRUE]
NoResult == [none |-> TRUE]
NoFrame == [none |-> TRUE]

Init ==
    /\ pc = "idle"
    /\ op = "none"
    /\ args = NoArgs
    /\ result = NoResult
    /\ frame = NoFrame
    /\ advanced = AdvancedPredictorInit
    /\ betting = BettingPredictorInit

(***************************************************************************)
(* Sequence helpers.                                                       *)
(***************************************************************************)
\* a slice taking the n oldest entries
OldestN(s, n) == IF Len(s) <= n THEN s ELSE SubSeq(s, 1, n)

\* s[-n:]
LastN(s, n) == IF Len(s) <= n THEN s ELSE SubSeq(s, Len(s) - n + 1, Len(s))

\* s[:n + 1]
FirstNPlusOne(s, n) == IF Len(s) <= n + 1 THEN s ELSE SubSeq(s, 1, n + 1)

\* s[:n]
FirstN(s, n) == IF Len(s) <= n THEN s ELSE SubSeq(s, 1, n)

RECURSIVE SumSeq(_)
SumSeq(s) == IF s = << >> THEN 0 ELSE Head(s) + SumSeq(Tail(s))

RECURSIVE SumSquares(_)
SumSquares(s) == IF s = << >> THEN 0 ELSE Head(s) * Head(s) + SumSquares(Tail(s))

\* the largest r with r * r <= x, searched in lo..hi
RECURSIVE ISqrtIn(_, _, _)
ISqrtIn(x, lo, hi) ==
    IF lo >= hi THEN lo
    ELSE LET mid == (lo + hi + 1) \div 2
         IN  IF mid * mid <= x THEN ISqrtIn(x, mid, hi) ELSE ISqrtIn(x, lo, mid - 1)

ISqrt(x) == ISqrtIn(x, 0, 46340)

\* np.mean of a non-empty list of integers
NpMean(values) == Q(SumSeq(values), Len(values))

\* np.std (population standard deviation) of a non-empty list of integers:
\* sqrt(n * sum(v^2) - sum(v)^2) / n, the root rounded down
NpStd(values) ==
    LET n == Len(values)
        m == n * SumSquares(values) - SumSeq(values) * SumSeq(values)
    IN  Q(ISqrt(m * StdResolution * StdResolution), StdResolution * n)

\* sum(1 for v in values if v > prop_line)
OverCount(values, prop_line) ==
    Cardinality({i \in DOMAIN values : FGt(Q(values[i], 1), prop_line)})

(***************************************************************************)
(* AdvancedPredictor                                                       *)
(***************************************************************************)
\* player_stats.get('games', []): a history is None, a dict without 'games',
\* or a dict with 'games'; a game is the value g.get(prop_type, 0)
GamesOf(stats) == IF stats.kind = "games" THEN stats.games ELSE << >>

\* not player_stats
Falsy(stats) == stats.kind = "None"

\* the guard of lines 44 and 165 with the threshold moved by one
InsufficientOffByOne(self, stats) ==
    Falsy(stats) \/ Len(GamesOf(stats)) < self.min_games_sample - 1

\* not stats or len(stats.get('games', [])) < self.min_games_sample
Insufficient(self, stats) ==
    Falsy(stats) \/ Len(GamesOf(stats)) < self.min_games_sample

\* _calculate_prop_confidence with the recent form subtracted
PropConfidenceRecentSubtracted(avg, std, prop_line, hit_rate, recent_hit_rate) ==
    LET margin == FDiv(FSub(avg, prop_line), prop_line)
        margin_score == PyMin(FMul(margin, Q(2, 1)), Q(30, 100))
        hit_score == FMul(hit_rate, Q(25, 100))
        recent_score == FNeg(FMul(recent_hit_rate, Q(30, 100)))
        consistency_score ==
            IF FGt(std, Zero)
            THEN FMul(FDiv(One, FAdd(One, FDiv(std, avg))), Q(15, 100))
            ELSE Q(15, 100)
    IN  [margin_score |-> margin_score, hit_score |-> hit_score,
         recent_score |-> recent_score,
         consistency_score |-> consistency_score,
         total_confidence |->
             FAdd(FAdd(FAdd(margin_score, hit_score), recent_score),
                  consistency_score)]

\* _calculate_prop_confidence giving no consistency score to a constant
\* history
PropConfidenceNoScoreAtZeroStd(avg, std, prop_line, hit_rate, recent_hit_rate) ==
    LET margin == FDiv(FSub(avg, prop_line), prop_line)
        margin_score == PyMin(FMul(margin, Q(2, 1)), Q(30, 100))
        hit_score == FMul(hit_rate, Q(25, 100))
        recent_score == FMul(recent_hit_rate, Q(30, 100))
        consistency_score ==
            IF FGt(std, Zero)
            THEN FMul(FDiv(One, FAdd(One, FDiv(std, avg))), Q(15, 100))
            ELSE Zero
    IN  [margin_score |-> margin_score, hit_score |-> hit_score,
         recent_score |-> recent_score,
         consistency_score |-> consistency_score,
         total_confidence |->
             FAdd(FAdd(FAdd(margin_score, hit_score), recent_score),
                  consistency_score)]

\* _calculate_prop_confidence letting the margin contribute up to 0.40
PropConfidenceLargerMarginCap(avg, std, prop_line, hit_rate, recent_hit_rate) ==
    LET margin == FDiv(FSub(avg, prop_line), prop_line)
        margin_score == PyMin(FMul(margin, Q(2, 1)), Q(40, 100))
        hit_score == FMul(hit_rate, Q(25, 100))
        recent_score == FMul(recent_hit_rate, Q(30, 100))
        consistency_score ==
            IF FGt(std, Zero)
            THEN FMul(FDiv(One, FAdd(One, FDiv(std, avg))), Q(15, 100))
            ELSE Q(15, 100)
    IN  [margin_score |-> margin_score, hit_score |-> hit_score,
         recent_score |-> recent_score,
         consistency_score |-> consistency_score,
         total_confidence |->
             FAdd(FAdd(FAdd(margin_score, hit_score), recent_score),
                  consistency_score)]

\* AdvancedPredictor._calculate_prop_confidence, lines 119-138: the four
\* scores and their total (median and recent_avg are not read)
PropConfidenceScores(avg, std, prop_line, hit_rate, recent_hit_rate) ==
    LET margin == FDiv(FSub(avg, prop_line), prop_line)
        margin_score == PyMin(FMul(margin, Q(2, 1)), Q(30, 100))
        hit_score == FMul(hit_rate, Q(25, 100))
        recent_score == FMul(recent_hit_rate, Q(30, 100))
        consistency_score ==
            IF FGt(std, Zero)
            THEN FMul(FDiv(One, FAdd(One, FDiv(std, avg))), Q(15, 100))
            ELSE Q(15, 100)
    IN  [margin_score |-> margin_score, hit_score |-> hit_score,
         recent_score |-> recent_score,
         consistency_score |-> consistency_score,
         total_confidence |->
             FAdd(FAdd(FAdd(margin_score, hit_score), recent_score),
                  consistency_score)]

\* AdvancedPredictor._calculate_prop_confidence: the total, capped
CalculatePropConfidence(avg, std, prop_line, hit_rate, recent_hit_rate) ==
    PyMin(PropConfidenceScores(avg, std, prop_line, hit_rate,
                               recent_hit_rate).total_confidence,
          Q(99, 100))

\* AdvancedPredictor._generate_reasoning: the text, as the values it formats
GenerateReasoning(name, prop_type, prop_line, avg, hit_rate, recent_hit_rate) ==
    <<name, "averages", avg, prop_type, "Line is", prop_line, "cushion",
      FSub(avg, prop_line), "Hit OVER in", hit_rate, "last 5", recent_hit_rate>>

\* the locals of analyze_player_prop once the history is long enough
\* (np.median is computed at line 55 and never read)
PlayerPropFrame(self, player_stats, prop_line) ==
    LET games == player_stats.games
        values == LastN(games, 20)
        avg == NpMean(values)
        std == NpStd(values)
        hit_rate == Q(OverCount(values, prop_line), Len(values))
        recent_5 == LastN(values, 5)
        recent_avg == NpMean(recent_5)
        recent_hit_rate == Q(OverCount(recent_5, prop_line), 5)
    IN  [values |-> values, avg |-> avg, std |-> std, hit_rate |-> hit_rate,
         recent_avg |-> recent_avg, recent_hit_rate |-> recent_hit_rate,
         scores |-> PropConfidenceScores(avg, std, prop_line, hit_rate,
                                         recent_hit_rate),
         confidence |-> CalculatePropConfidence(avg, std, prop_line, hit_rate,
                                                recent_hit_rate)]

\* the return value of analyze_player_prop
PlayerPropResult(self, player_stats, prop_line, prop_type, f) ==
    IF Insufficient(self, player_stats)
    THEN [recommended |-> FALSE, reason |-> <<"Insufficient historical data">>]
    ELSE IF FLt(f.confidence, self.min_confidence)
    THEN [recommended |-> FALSE, confidence |-> f.confidence,
          reason |-> <<"Confidence", f.confidence, "below 90% threshold">>]
    ELSE [recommended |-> TRUE, prop_type |-> prop_type, prop_line |-> prop_line,
          player_avg |-> f.avg, recent_avg |-> f.recent_avg,
          hit_rate |-> f.hit_rate, recent_hit_rate |-> f.recent_hit_rate,
          confidence |-> f.confidence,
          reasoning |-> GenerateReasoning(player_stats.name, prop_type, prop_line,
                                          f.avg, f.hit_rate, f.recent_hit_rate)]

\* a team-stat confidence with a base of 0.20
TeamStatConfidenceLargerBase(hit_rate, margin) ==
    FAdd(FAdd(FMul(hit_rate, Q(50, 100)),
              PyMin(FMul(margin, Q(15, 10)), Q(30, 100))),
         Q(20, 100))

\* analyze_team_stat_prop, line 184:
\* (hit_rate * 0.50) + (min(margin * 1.5, 0.30)) + 0.10
TeamStatConfidence(hit_rate, margin) ==
    FAdd(FAdd(FMul(hit_rate, Q(50, 100)),
              PyMin(FMul(margin, Q(15, 10)), Q(30, 100))),
         Q(10, 100))

\* the locals of analyze_team_stat_prop once the history is long enough
\* (np.median and np.std are computed at lines 174-175 and never read)
TeamStatFrame(self, team_stats, prop_line) ==
    LET games == team_stats.games
        values == LastN(games, 15)
        avg == NpMean(values)
        std == NpStd(values)
        hit_rate == Q(OverCount(values, prop_line), Len(values))
        margin == IF FGt(prop_line, Zero)
                  THEN FDiv(FSub(avg, prop_line), prop_line) ELSE Zero
    IN  [values |-> values, avg |-> avg, std |-> std, hit_rate |-> hit_rate,
         margin |-> margin,
         confidence |-> TeamStatConfidence(hit_rate, margin)]

\* the return value of analyze_team_stat_prop
TeamStatResult(self, team_stats, prop_line, stat_type, f) ==
    IF Insufficient(self, team_stats)
    THEN [recommended |-> FALSE, reason |-> <<"Insufficient data">>]
    ELSE IF FLt(f.confidence, self.min_confidence)
    THEN [recommended |-> FALSE, confidence |-> f.confidence,
          reason |-> <<"Confidence", f.confidence, "below threshold">>]
    ELSE [recommended |-> TRUE, stat_type |-> stat_type, prop_line |-> prop_line,
          team_avg |-> f.avg, hit_rate |-> f.hit_rate,
          confidence |-> f.confidence,
          reasoning |-> <<"Team averages", f.avg, stat_type, "Line is",
                          prop_line, "Hit OVER in", f.hit_rate>>]


\* analyze_player_prop(player_stats, prop_line, prop_type)
analyze_player_prop ==
    /\ pc = "called"
    /\ op = "analyze_player_prop"
    /\ \E f \in {IF ~Insufficient(advanced, args.stats)
                  THEN PlayerPropFrame(advanced, args.stats, args.prop_line)
                  ELSE NoFrame} :
          /\ frame' = f
          /\ result' = PlayerPropResult(advanced, args.stats, args.prop_line,
                                        args.prop_type, f)
    /\ pc' = "returned"
    /\ UNCHANGED <<op, args, advanced, betting>>

\* analyze_team_stat_prop(team_stats, prop_line, stat_type)
analyze_team_stat_prop ==
    /\ pc = "called"
    /\ op = "analyze_team_stat_prop"
    /\ \E f \in {IF ~Insufficient(advanced, args.stats)
                  THEN TeamStatFrame(advanced, args.stats, args.prop_line)
                  ELSE NoFrame} :
          /\ frame' = f
          /\ result' = TeamStatResult(advanced, args.stats, args.prop_line,
                                      args.prop_type, f)
    /\ pc' = "returned"
    /\ UNCHANGED <<op, args, advanced, betting>>

(***************************************************************************)
(* Config (src/app/config.py)                                              *)
(***************************************************************************)
MIN_ODDS == Q(101, 100)
MAX_ODDS == Q(15, 10)
MIN_CONFIDENCE == Q(65, 100)
MAX_PARLAY_LEGS == 5
BANKROLL_PERCENTAGE == Q(2, 100)

(***************************************************************************)
(* BettingPredictor                                                        *)
(***************************************************************************)
\* None, as the value of an absent odds entry
None == [k |-> "none", sg |-> 0, num |-> << >>, den |-> <<1>>]

\* the truth value Python gives a number or None
Truthy(x) == x.k # "none" /\ ~(x.k = "fin" /\ x.sg = 0)

\* calculate_implied_probability without its guard
ImpliedProbabilityUnguarded(odds) == FDiv(One, odds)

\* BettingPredictor.calculate_implied_probability
calculate_implied_probability(odds) ==
    IF FGt(odds, Zero) THEN FDiv(One, odds) ELSE Zero

\* calculate_value with the difference the other way round
ValueReversed(predicted_prob, odds) ==
    FSub(calculate_implied_probability(odds), predicted_prob)

\* BettingPredictor.calculate_value
calculate_value(predicted_prob, odds) ==
    LET implied_prob == calculate_implied_probability(odds)
    IN  FSub(predicted_prob, implied_prob)

\* _extract_features with a home advantage of 0.10
ExtractFeaturesLargerAdvantage(game) ==
    [home_advantage |-> Q(10, 100), form_differential |-> Zero,
     h2h_advantage |-> Zero, rest_advantage |-> Zero]

\* BettingPredictor._extract_features
ExtractFeatures(game) ==
    [home_advantage |-> Q(5, 100), form_differential |-> Zero,
     h2h_advantage |-> Zero, rest_advantage |-> Zero]

\* _adjust_probability adding the home advantage to either side
AdjustProbabilityAlwaysAdd(base_prob, features, side) ==
    PyMax(Q(1, 100),
          PyMin(Q(99, 100),
                FAdd(base_prob,
                     FAdd(features.home_advantage, features.form_differential))))

\* BettingPredictor._adjust_probability
AdjustProbability(base_prob, features, side) ==
    LET adjustment ==
            IF side = "home"
            THEN FAdd(FAdd(Zero, features.home_advantage),
                      features.form_differential)
            ELSE FSub(FSub(Zero, features.home_advantage),
                      features.form_differential)
        adjusted == FAdd(base_prob, adjustment)
    IN  PyMax(Q(1, 100), PyMin(Q(99, 100), adjusted))

\* game.get('draw_odds', 0) if game.get('draw_odds') else 0, as a number
DrawOddsOrZero(game) == IF Truthy(game.draw_odds) THEN game.draw_odds ELSE Zero

\* lines 42-44 without the normalisation of lines 47-51
ImpliedProbsOnly(game) ==
    [home |-> calculate_implied_probability(game.home_odds),
     away |-> calculate_implied_probability(game.away_odds),
     draw |-> IF Truthy(game.draw_odds)
              THEN calculate_implied_probability(game.draw_odds) ELSE Zero]

\* analyze_game, lines 42-51: the implied probabilities, normalised when
\* their total is positive
NormalizedProbs(game) ==
    LET home_prob == calculate_implied_probability(game.home_odds)
        away_prob == calculate_implied_probability(game.away_odds)
        draw_prob == IF Truthy(game.draw_odds)
                     THEN calculate_implied_probability(game.draw_odds)
                     ELSE Zero
        total_prob == FAdd(FAdd(home_prob, away_prob), draw_prob)
    IN  IF FGt(total_prob, Zero)
        THEN [home |-> FDiv(home_prob, total_prob),
              away |-> FDiv(away_prob, total_prob),
              draw |-> IF FGt(draw_prob, Zero)
                       THEN FDiv(draw_prob, total_prob) ELSE Zero]
        ELSE [home |-> home_prob, away |-> away_prob, draw |-> draw_prob]

\* analyze_game, lines 53-65: the predictions dict in its insertion order,
\* each entry <<outcome, probability, odds>>
Predictions(game, probs) ==
    LET features == ExtractFeatures(game)
        adjusted_home_prob == AdjustProbability(probs.home, features, "home")
        adjusted_away_prob == AdjustProbability(probs.away, features, "away")
    IN  << <<"home", adjusted_home_prob, game.home_odds>>,
           <<"away", adjusted_away_prob, game.away_odds>> >>
        \o (IF FGt(probs.draw, Zero)
            THEN << <<"draw", probs.draw, DrawOddsOrZero(game)>> >>
            ELSE << >>)

\* the condition of line 73 without its odds band
MeetsCriteriaAnyOdds(prob, odds) == FGe(prob, MIN_CONFIDENCE)

\* the condition of line 73
MeetsCriteria(prob, odds) ==
    FLe(MIN_ODDS, odds) /\ FLe(odds, MAX_ODDS) /\ FGe(prob, MIN_CONFIDENCE)

\* analyze_game, lines 68-77: the loop over the predictions from entry i on
RECURSIVE BestFrom(_, _, _)
BestFrom(predictions, i, best) ==
    IF i > Len(predictions) THEN best
    ELSE LET outcome == predictions[i][1]
             prob == predictions[i][2]
             odds == predictions[i][3]
         IN  BestFrom(predictions, i + 1,
                 IF MeetsCriteria(prob, odds) /\ FGt(prob, best.confidence)
                 THEN [outcome |-> outcome, confidence |-> prob, odds |-> odds]
                 ELSE best)

BestOutcome(predictions) ==
    BestFrom(predictions, 1,
             [outcome |-> "None", confidence |-> Zero, odds |-> Zero])

\* the return value of analyze_game
GameResult(game, best) ==
    IF best.outcome = "None"
    THEN [recommended |-> FALSE,
          reason |-> <<"No outcome meets criteria (odds or confidence too low)">>]
    ELSE [recommended |-> TRUE, outcome |-> best.outcome,
          predicted_probability |-> best.confidence, odds |-> best.odds,
          expected_value |-> calculate_value(best.confidence, best.odds),
          confidence_score |-> best.confidence, sport |-> game.sport,
          home_team |-> game.home_team, away_team |-> game.away_team,
          commence_time |-> game.commence_time]

\* analyze_game(game)
analyze_game ==
    /\ pc = "called"
    /\ op = "analyze_game"
    /\ \E probs \in {NormalizedProbs(args.game)} :
          \E predictions \in {Predictions(args.game, probs)} :
             \E best \in {BestOutcome(predictions)} :
                /\ frame' = [home_prob |-> probs.home,
                             away_prob |-> probs.away,
                             draw_prob |-> probs.draw,
                             predictions |-> predictions]
                /\ result' = GameResult(args.game, best)
    /\ pc' = "returned"
    /\ UNCHANGED <<op, args, advanced, betting>>

\* calculate_implied_probability(odds), called on its own
ImpliedProbabilityCall ==
    /\ pc = "called"
    /\ op = "calculate_implied_probability"
    /\ result' = calculate_implied_probability(args.odds)
    /\ frame' = NoFrame
    /\ pc' = "returned"
    /\ UNCHANGED <<op, args, advanced, betting>>

\* calculate_value(predicted_prob, odds), called on its own
ValueCall ==
    /\ pc = "called"
    /\ op = "calculate_value"
    /\ result' = calculate_value(args.predicted_prob, args.odds)
    /\ frame' = NoFrame
    /\ pc' = "returned"
    /\ UNCHANGED <<op, args, advanced, betting>>

(***************************************************************************)
(* Parlay composition                                                      *)
(***************************************************************************)
\* the filter taking an entry without the key as recommended
GetRecommendedDefaultTrue(p) == "recommended" \notin DOMAIN p \/ p.recommended

\* p.get('recommended') and p.get('recommended', False): falsy when the key
\* is absent
GetRecommended(p) == "recommended" \in DOMAIN p /\ p.recommended

\* an insertion that puts keys[i] before the entries of equal key
RECURSIVE InsertDescBeforeEqual(_, _, _)
InsertDescBeforeEqual(sorted, i, keys) ==
    IF sorted = << >> THEN <<i>>
    ELSE IF FLe(keys[Head(sorted)], keys[i]) THEN <<i>> \o sorted
    ELSE <<Head(sorted)>> \o InsertDescBeforeEqual(Tail(sorted), i, keys)

\* the indices into keys, keys[i] inserted before the first smaller key
RECURSIVE InsertDesc(_, _, _)
InsertDesc(sorted, i, keys) ==
    IF sorted = << >> THEN <<i>>
    ELSE IF FLt(keys[Head(sorted)], keys[i]) THEN <<i>> \o sorted
    ELSE <<Head(sorted)>> \o InsertDesc(Tail(sorted), i, keys)

RECURSIVE SortedIndices(_, _)
SortedIndices(keys, n) ==
    IF n = 0 THEN << >> ELSE InsertDesc(SortedIndices(keys, n - 1), n, keys)

\* a sort that leaves the list as it is
SortKeepsOrder(s, keys) == s

\* list.sort(key=..., reverse=True): descending by key, entries of equal key
\* in their original order; keys[i] is the key of s[i]
SortDescending(s, keys) ==
    LET order == SortedIndices(keys, Len(s))
    IN  [i \in 1..Len(s) |-> s[order[i]]]

\* range(lo, hi) as a sequence
Range(lo, hi) == [i \in 1..(IF hi > lo THEN hi - lo ELSE 0) |-> lo + i - 1]

Min2(a, b) == IF a < b THEN a ELSE b

\* np.prod of a list of floats
RECURSIVE NpProd(_)
NpProd(s) == IF s = << >> THEN One ELSE FMul(Head(s), NpProd(Tail(s)))

\* estimated odds multiplying the bare reciprocals, without the clamp
RECURSIVE EstimatedOddsUnclamped(_, _, _, _)
EstimatedOddsUnclamped(self, legs, i, estimated_odds) ==
    IF i > Len(legs) THEN estimated_odds
    ELSE LET implied_prob == legs[i].confidence
             leg_odds == IF FGt(implied_prob, Zero)
                         THEN FDiv(One, implied_prob) ELSE Q(15, 10)
         IN  EstimatedOddsUnclamped(self, legs, i + 1,
                                    FMul(estimated_odds, leg_odds))

\* generate_prop_parlay, lines 246-253: the estimated odds of legs i..
RECURSIVE EstimatedOdds(_, _, _, _)
EstimatedOdds(self, legs, i, estimated_odds) ==
    IF i > Len(legs) THEN estimated_odds
    ELSE LET implied_prob == legs[i].confidence
             leg_odds == IF FGt(implied_prob, Zero)
                         THEN FDiv(One, implied_prob) ELSE Q(15, 10)
             capped == PyMax(self.min_odds, PyMin(leg_odds, self.max_odds))
         IN  EstimatedOdds(self, legs, i + 1, FMul(estimated_odds, capped))

\* the test of line 241 with a floor of 0.75
BelowConfidenceFloorLoose(combined_confidence) ==
    FLt(combined_confidence, Q(75, 100))

\* generate_prop_parlay, line 241: combined_confidence < 0.90
BelowConfidenceFloor(combined_confidence) ==
    FLt(combined_confidence, Q(90, 100))

\* generate_prop_parlay, lines 231-264: the parlays appended for the sizes
\* sizes[i..]
RECURSIVE PropParlaysFrom(_, _, _, _)
PropParlaysFrom(self, valid_props, sizes, i) ==
    IF i > Len(sizes) THEN << >>
    ELSE LET size == sizes[i]
             legs == FirstN(valid_props, size)
             combined_confidence ==
                 NpProd([j \in 1..Len(legs) |-> legs[j].confidence])
             estimated_odds == EstimatedOdds(self, legs, 1, One)
             rest == PropParlaysFrom(self, valid_props, sizes, i + 1)
         IN  IF BelowConfidenceFloor(combined_confidence) THEN rest
             ELSE <<[num_legs |-> size, legs |-> legs,
                     combined_confidence |-> combined_confidence,
                     estimated_odds |-> estimated_odds,
                     expected_value |->
                         FSub(FMul(combined_confidence, estimated_odds), One),
                     reasoning |-> <<size, "-leg parlay with",
                                     combined_confidence, "confidence">>]>>
                  \o rest

\* the return value of generate_prop_parlay
PropParlayResult(self, all_props, max_legs) ==
    LET valid == SelectSeq(all_props, GetRecommended)
    IN  IF Len(valid) < 2 THEN << >>
        ELSE LET valid_props ==
                     SortDescending(valid,
                         [i \in 1..Len(valid) |-> valid[i].confidence])
                 parlays ==
                     PropParlaysFrom(self, valid_props,
                         Range(5, Min2(Len(valid_props) + 1, max_legs + 1)), 1)
                 ranked ==
                     SortDescending(parlays,
                         [i \in 1..Len(parlays) |-> parlays[i].combined_confidence])
             IN  FirstN(ranked, 5)

\* generate_prop_parlay, lines 220-233: the locals valid_props and, for every
\* turn of the loop, size and legs
PropParlayFrame(all_props, max_legs) ==
    LET valid == SelectSeq(all_props, GetRecommended)
    IN  IF Len(valid) < 2 THEN [valid_props |-> valid, candidates |-> << >>]
        ELSE LET valid_props ==
                     SortDescending(valid,
                         [i \in 1..Len(valid) |-> valid[i].confidence])
                 sizes == Range(5, Min2(Len(valid_props) + 1, max_legs + 1))
             IN  [valid_props |-> valid_props,
                  candidates |->
                      [i \in 1..Len(sizes) |->
                          [size |-> sizes[i],
                           legs |-> FirstN(valid_props, sizes[i])]]]

\* a composer sorting the caller's list in place
PoolSortedInPlace(pool) ==
    SortDescending(pool,
        [i \in 1..Len(pool) |->
            IF "confidence" \in DOMAIN pool[i] THEN pool[i].confidence
            ELSE IF "confidence_score" \in DOMAIN pool[i]
            THEN pool[i].confidence_score ELSE Zero])

\* the caller's list after a composer ran: the comprehension of line 220
\* (line 152) builds a new list, sort() and the slices act on that one
PoolAfterCall(pool) == pool

\* generate_prop_parlay(all_props, max_legs)
generate_prop_parlay ==
    /\ pc = "called"
    /\ op = "generate_prop_parlay"
    /\ result' = PropParlayResult(advanced, args.all_props, args.max_legs)
    /\ args' = [args EXCEPT !.all_props = PoolAfterCall(args.all_props)]
    /\ frame' = PropParlayFrame(args.all_props, args.max_legs)
    /\ pc' = "returned"
    /\ UNCHANGED <<op, advanced, betting>>

\* generate_parlays, lines 179-189: the dict built for a leg
GameLeg(leg) ==
    [sport |-> leg.sport, home_team |-> leg.home_team,
     away_team |-> leg.away_team, outcome |-> leg.outcome, odds |-> leg.odds,
     probability |-> leg.predicted_probability]

\* the test of line 177 without its ceiling on the odds
ViableAnyOdds(combined_probability, combined_odds) ==
    FGe(combined_probability, Q(4, 10))

\* generate_parlays, line 177: combined_probability >= 0.4 and
\* combined_odds <= 10.0
Viable(combined_probability, combined_odds) ==
    FGe(combined_probability, Q(4, 10)) /\ FLe(combined_odds, Q(10, 1))

\* generate_parlays, lines 164-197: the parlays appended for the sizes
\* sizes[i..]
RECURSIVE GameParlaysFrom(_, _, _)
GameParlaysFrom(valid_bets, sizes, i) ==
    IF i > Len(sizes) THEN << >>
    ELSE LET parlay_size == sizes[i]
             legs == FirstN(valid_bets, parlay_size)
             combined_odds == NpProd([j \in 1..Len(legs) |-> legs[j].odds])
             combined_probability ==
                 NpProd([j \in 1..Len(legs) |-> legs[j].predicted_probability])
             rest == GameParlaysFrom(valid_bets, sizes, i + 1)
         IN  IF Viable(combined_probability, combined_odds)
             THEN <<[legs |-> [j \in 1..Len(legs) |-> GameLeg(legs[j])],
                     total_odds |-> PyRound(combined_odds, 2),
                     combined_probability |-> PyRound(combined_probability, 3),
                     num_legs |-> parlay_size,
                     expected_value |->
                         PyRound(FSub(FMul(combined_probability, combined_odds),
                                      One), 3),
                     recommended_stake |->
                         PyRound(FMul(BANKROLL_PERCENTAGE, Q(100, 1)), 2)]>>
                  \o rest
             ELSE rest

\* generate_parlays without the guard of line 154 and with sizes from 1
GameParlayResultFromOne(predictions) ==
    LET valid == SelectSeq(predictions, GetRecommended)
        valid_bets ==
            SortDescending(valid,
                [i \in 1..Len(valid) |-> valid[i].confidence_score])
        parlays ==
            GameParlaysFrom(valid_bets,
                Range(1, Min2(Len(valid_bets) + 1, MAX_PARLAY_LEGS + 1)), 1)
        ranked ==
            SortDescending(parlays,
                [i \in 1..Len(parlays) |-> parlays[i].expected_value])
    IN  FirstN(ranked, 5)

\* the return value of generate_parlays
GameParlayResult(predictions) ==
    LET valid == SelectSeq(predictions, GetRecommended)
    IN  IF Len(valid) < 2 THEN << >>
        ELSE LET valid_bets ==
                     SortDescending(valid,
                         [i \in 1..Len(valid) |-> valid[i].confidence_score])
                 parlays ==
                     GameParlaysFrom(valid_bets,
                         Range(2, Min2(Len(valid_bets) + 1, MAX_PARLAY_LEGS + 1)), 1)
                 ranked ==
                     SortDescending(parlays,
                         [i \in 1..Len(parlays) |-> parlays[i].expected_value])
             IN  FirstN(ranked, 5)

\* generate_parlays, lines 152-166: the locals valid_bets and, for every turn
\* of the loop, parlay_size and legs
GameParlayFrame(predictions) ==
    LET valid == SelectSeq(predictions, GetRecommended)
    IN  IF Len(valid) < 2 THEN [valid_bets |-> valid, candidates |-> << >>]
        ELSE LET valid_bets ==
                     SortDescending(valid,
                         [i \in 1..Len(valid) |-> valid[i].confidence_score])
                 sizes == Range(2, Min2(Len(valid_bets) + 1,
                                        MAX_PARLAY_LEGS + 1))
             IN  [valid_bets |-> valid_bets,
                  candidates |->
                      [i \in 1..Len(sizes) |->
                          [size |-> sizes[i],
                           legs |-> FirstN(valid_bets, sizes[i])]]]

\* generate_parlays(predictions)
generate_parlays ==
    /\ pc = "called"
    /\ op = "generate_parlays"
    /\ result' = GameParlayResult(args.predictions)
    /\ args' = [args EXCEPT !.predictions = PoolAfterCall(args.predictions)]
    /\ frame' = GameParlayFrame(args.predictions)
    /\ pc' = "returned"
    /\ UNCHANGED <<op, advanced, betting>>

(***************************************************************************)
(* The daily pipeline                                                      *)
(***************************************************************************)
\* the return value of analyze_game for a game
AnalyzeGame(game) ==
    GameResult(game, BestOutcome(Predictions(game, NormalizedProbs(game))))

\* daily_update, lines 76-84: the recommended predictions, in the order of
\* the fetched games
DailyPredictions(games) ==
    SelectSeq([i \in 1..Len(games) |-> AnalyzeGame(games[i])], GetRecommended)

\* daily_update(): the fetched games are analysed, the recommended
\* predictions are composed into parlays, and nothing is returned (the
\* database rows written at lines 88-99 and 110-121 copy the values kept
\* in the frame)
daily_update ==
    /\ pc = "called"
    /\ op = "daily_update"
    /\ \E predictions \in {DailyPredictions(args.all_odds)} :
          frame' = [predictions |-> predictions,
                    candidates |-> GameParlayFrame(predictions).candidates,
                    parlays |-> GameParlayResult(predictions)]
    /\ result' = None
    /\ pc' = "returned"
    /\ UNCHANGED <<op, args, advanced, betting>>

(***************************************************************************)
(* The caller: the histories and lines it supplies.                        *)
(***************************************************************************)
\* the value a game records for the requested metric: 24 is 1.2 times the
\* line 20
SampleValues == {0, 20, 24, 30}

\* the lines asked about: 0, 20 (a sample can equal it) and 20.5
PropLines == {Zero, Q(20, 1), Q(41, 2)}

Repeat(v, n) == [i \in 1..n |-> v]

\* histories of up to MaxGames games, oldest first: a run of one value
\* followed by a run of another
GameLists ==
    {Repeat(r[1], r[3]) \o Repeat(r[2], r[4]) :
        r \in {q \in SampleValues \X SampleValues \X (0..MaxGames) \X (0..MaxGames) :
                  q[3] + q[4] <= MaxGames}}

Histories ==
    {[kind |-> "None", name |-> "subject", games |-> << >>],
     [kind |-> "no_games", name |-> "subject", games |-> << >>]}
    \cup {[kind |-> "games", name |-> "subject", games |-> g] : g \in GameLists}

RequestProp ==
    /\ pc = "idle"
    /\ \E o \in {"analyze_player_prop", "analyze_team_stat_prop"},
          h \in Histories, l \in PropLines :
          /\ op' = o
          /\ args' = [stats |-> h, prop_line |-> l, prop_type |-> "metric"]
    /\ pc' = "called"
    /\ UNCHANGED <<result, frame, advanced, betting>>

\* decimal odds of an outcome: 0 stands for no market
OddsValues ==
    {Zero, Q(101, 100), Q(105, 100), Q(12, 10), Q(13, 10), Q(15, 10),
     Q(16, 10), Q(2, 1), Q(35, 10), Q(1000, 1)}

DrawOddsValues == {None, Zero, Q(12, 10), Q(14, 10), Q(34, 10)}

Games ==
    {[sport |-> "sport", home_team |-> "home team", away_team |-> "away team",
      commence_time |-> "time", home_odds |-> h, away_odds |-> a,
      draw_odds |-> d] :
        h \in OddsValues, a \in OddsValues, d \in DrawOddsValues}

RequestGame ==
    /\ pc = "idle"
    /\ \E g \in Games :
          /\ op' = "analyze_game"
          /\ args' = [game |-> g]
    /\ pc' = "called"
    /\ UNCHANGED <<result, frame, advanced, betting>>

\* the odds and probabilities the two conversions are asked about: the
\* quotes above, a negative price, and the values of the unit tests
ConversionOdds == OddsValues \cup {Q(-2, 1), Q(4, 1)}

ConversionProbabilities ==
    {Zero, Q(4, 10), Q(1, 2), Q(2, 3), Q(7, 10), One}

RequestImpliedProbability ==
    /\ pc = "idle"
    /\ \E o \in ConversionOdds :
          /\ op' = "calculate_implied_probability"
          /\ args' = [odds |-> o]
    /\ pc' = "called"
    /\ UNCHANGED <<result, frame, advanced, betting>>

RequestValue ==
    /\ pc = "idle"
    /\ \E p \in ConversionProbabilities, o \in ConversionOdds :
          /\ op' = "calculate_value"
          /\ args' = [predicted_prob |-> p, odds |-> o]
    /\ pc' = "called"
    /\ UNCHANGED <<result, frame, advanced, betting>>

\* the kinds of entry of a pool of prop results: recommended with a
\* confidence of 0.99, 0.98 or 0.95, analysed and rejected, and a record
\* without the key 'recommended'
PropKinds == {"r99", "r98", "r95", "rejected", "unmarked"}

\* the i-th entry of a pool, of kind t; id is the identity of the dict
PropEntry(t, i) ==
    IF t = "r99" THEN [id |-> i, recommended |-> TRUE, confidence |-> Q(99, 100)]
    ELSE IF t = "r98" THEN [id |-> i, recommended |-> TRUE, confidence |-> Q(98, 100)]
    ELSE IF t = "r95" THEN [id |-> i, recommended |-> TRUE, confidence |-> Q(95, 100)]
    ELSE IF t = "rejected"
    THEN [id |-> i, recommended |-> FALSE, confidence |-> Q(60, 100)]
    ELSE [id |-> i, confidence |-> Q(99, 100)]

\* the kinds of entry of a pool of game results
GameKinds == {"g90", "g75", "g72", "g65", "long", "rejected", "unmarked"}

GameFields(t) ==
    IF t = "g90" THEN <<Q(11, 10), Q(90, 100)>>
    ELSE IF t = "g75" THEN <<Q(13, 10), Q(75, 100)>>
    ELSE IF t = "g72" THEN <<Q(14, 10), Q(72, 100)>>
    ELSE IF t = "g65" THEN <<Q(15, 10), Q(65, 100)>>
    ELSE <<Q(3, 1), Q(95, 100)>>

\* the i-th entry of a pool, of kind t: the game of home team i
GameEntry(t, i) ==
    LET base == [sport |-> "sport", home_team |-> <<"home", i>>,
                 away_team |-> <<"away", i>>, commence_time |-> "time",
                 outcome |-> "home", odds |-> GameFields(t)[1],
                 predicted_probability |-> GameFields(t)[2],
                 confidence_score |-> GameFields(t)[2]]
    IN  IF t = "rejected"
        THEN [recommended |-> FALSE, reason |-> <<"No outcome meets criteria">>]
        ELSE IF t = "unmarked" THEN base
        ELSE [recommended |-> TRUE] @@ base

\* the shapes of a pool of up to MaxPool entries: three runs of kinds
PoolShapes(kinds) ==
    {Repeat(r[1], r[4]) \o Repeat(r[2], r[5]) \o Repeat(r[3], r[6]) :
        r \in {q \in kinds \X kinds \X kinds
                     \X (0..MaxPool) \X (0..MaxPool) \X (0..MaxPool) :
                  q[4] + q[5] + q[6] <= MaxPool}}

\* pools of like entries, longer than the mixed ones
LongPoolShapes(kinds) ==
    {Repeat(t, n) : t \in kinds, n \in (MaxPool + 1)..MaxLongPool}

\* the max_legs arguments: below the smallest size, the smallest size, the
\* default, and one that allows more than five sizes
MaxLegsValues == {4, 5, 8, 10}

RequestPropParlay ==
    /\ pc = "idle"
    /\ \E shape \in PoolShapes(PropKinds) \cup LongPoolShapes(PropKinds),
          m \in MaxLegsValues :
          /\ op' = "generate_prop_parlay"
          /\ args' = [all_props |->
                          [i \in 1..Len(shape) |-> PropEntry(shape[i], i)],
                      max_legs |-> m]
    /\ pc' = "called"
    /\ UNCHANGED <<result, frame, advanced, betting>>

RequestGameParlay ==
    /\ pc = "idle"
    /\ \E shape \in PoolShapes(GameKinds) \cup LongPoolShapes(GameKinds) :
          /\ op' = "generate_parlays"
          /\ args' = [predictions |->
                          [i \in 1..Len(shape) |-> GameEntry(shape[i], i)]]
    /\ pc' = "called"
    /\ UNCHANGED <<result, frame, advanced, betting>>

\* the quotes the odds feed delivers, as <<home, away, draw>>: a favourite
\* at 1.2, one at the top of the odds band, an away favourite, a home side
\* whose adjusted probability is exactly 0.65, an open game with a draw, and
\* a favourite just outside the odds band
PipelineQuotes ==
    {<<Q(12, 10), Q(35, 10), None>>, <<Q(15, 10), Q(1000, 1), None>>,
     <<Q(35, 10), Q(105, 100), None>>, <<Q(14, 10), Q(21, 10), None>>,
     <<Q(2, 1), Q(2, 1), Q(34, 10)>>, <<Q(16, 10), Q(1000, 1), None>>}

\* the i-th fetched game, quoted q
FetchedGame(q, i) ==
    [sport |-> "sport", home_team |-> <<"home", i>>,
     away_team |-> <<"away", i>>, commence_time |-> "time",
     home_odds |-> q[1], away_odds |-> q[2], draw_odds |-> q[3]]

\* the fetched lists of up to MaxFetched games: three runs of quotes
FetchedShapes ==
    {Repeat(r[1], r[4]) \o Repeat(r[2], r[5]) \o Repeat(r[3], r[6]) :
        r \in {q \in PipelineQuotes \X PipelineQuotes \X PipelineQuotes
                     \X (0..MaxFetched) \X (0..MaxFetched) \X (0..MaxFetched) :
                  q[4] + q[5] + q[6] <= MaxFetched}}

RequestDailyUpdate ==
    /\ pc = "idle"
    /\ \E shape \in FetchedShapes :
          /\ op' = "daily_update"
          /\ args' = [all_odds |->
                          [i \in 1..Len(shape) |-> FetchedGame(shape[i], i)]]
    /\ pc' = "called"
    /\ UNCHANGED <<result, frame, advanced, betting>>

\* the caller takes the result; the next call starts from the same objects
Return ==
    /\ pc = "returned"
    /\ pc' = "idle"
    /\ op' = "none"
    /\ args' = NoArgs
    /\ result' = NoResult
    /\ frame' = NoFrame
    /\ UNCHANGED <<advanced, betting>>

NextProp ==
    \/ RequestProp
    \/ analyze_player_prop
    \/ analyze_team_stat_prop
    \/ Return

NextGame ==
    \/ RequestGame
    \/ analyze_game
    \/ Return

NextParlay ==
    \/ RequestPropParlay
    \/ generate_prop_parlay
    \/ RequestGameParlay
    \/ generate_parlays
    \/ Return

NextOdds ==
    \/ RequestImpliedProbability
    \/ ImpliedProbabilityCall
    \/ RequestValue
    \/ ValueCall
    \/ Return

NextPipeline ==
    \/ RequestDailyUpdate
    \/ daily_update
    \/ Return

Next ==
    \/ NextProp
    \/ NextGame
    \/ NextParlay
    \/ NextOdds
    \/ NextPipeline

\* the two analyses of AdvancedPredictor alone
SpecProp == Init /\ [][NextProp]_vars

\* analyze_game alone
SpecGame == Init /\ [][NextGame]_vars

\* the two parlay composers alone
SpecParlay == Init /\ [][NextParlay]_vars

\* the two odds conversions alone
SpecOdds == Init /\ [][NextOdds]_vars

\* the daily pipeline alone
SpecPipeline == Init /\ [][NextPipeline]_vars

Spec == Init /\ [][Next]_vars

(***************************************************************************)
(* Properties                                                              *)
(***************************************************************************)
PropOps == {"analyze_player_prop", "analyze_team_stat_prop"}

ReturnedFrom(ops) == pc = "returned" /\ op \in ops

\* the history passed to the call has at least 10 samples
TenOrMore == args.stats.kind = "games" /\ Len(args.stats.games) >= 10

\* C1: for every history of at least 10 samples and every line, the
\* confidence returned by analyze_player_prop and analyze_team_stat_prop,
\* recommended or not, satisfies 0 <= confidence <= 0.99, a window mean far
\* below the line included.  Stated for the lines above 0; the line 0 is the
\* unguarded division of C15.
C1_ConfidenceBetweenZeroAndCap ==
    (ReturnedFrom(PropOps) /\ TenOrMore /\ FGt(args.prop_line, Zero))
        => /\ "confidence" \in DOMAIN result
           /\ FLe(Zero, result.confidence)
           /\ FLe(result.confidence, Q(99, 100))

\* C2: whenever analyze_game returns recommended = true, the returned
\* confidence_score and predicted_probability are at most 0.99, the draw
\* included.
C2_RecommendedGameAtMostCap ==
    (ReturnedFrom({"analyze_game"}) /\ result.recommended)
        => /\ FLe(result.confidence_score, Q(99, 100))
           /\ FLe(result.predicted_probability, Q(99, 100))

\* C3: for a history that is missing, empty or shorter than 10 samples the
\* two prop analyses return recommended = false with the insufficient-data
\* reason and no confidence; a result carrying a confidence comes only from
\* a history of at least 10 samples.
C3_ShortHistoryIsNotScored ==
    ReturnedFrom(PropOps)
        => /\ ~TenOrMore
                => /\ "recommended" \in DOMAIN result
                   /\ result.recommended = FALSE
                   /\ "reason" \in DOMAIN result
                   /\ result.reason \in {<<"Insufficient historical data">>,
                                         <<"Insufficient data">>}
                   /\ "confidence" \notin DOMAIN result
           /\ "confidence" \in DOMAIN result => TenOrMore

\* a history of nine games was analysed and rejected for lack of data
C3_Witness ==
    /\ ReturnedFrom(PropOps)
    /\ args.stats.kind = "games"
    /\ Len(args.stats.games) = 9
    /\ result.recommended = FALSE
    /\ "confidence" \notin DOMAIN result

\* C4: for a history of at least 10 samples the two prop analyses return
\* recommended = true exactly when the computed confidence is >= 0.90, and
\* below 0.90 return recommended = false with the confidence and a reason.
C4_RecommendedExactlyWhenConfident ==
    (ReturnedFrom(PropOps) /\ TenOrMore)
        => /\ "recommended" \in DOMAIN result
           /\ "confidence" \in DOMAIN result
           /\ result.recommended <=> FGe(result.confidence, Q(90, 100))
           /\ ~result.recommended => "reason" \in DOMAIN result

\* an outcome of the loop of analyze_game is eligible
Eligible(prediction) ==
    /\ FLe(Q(101, 100), prediction[3])
    /\ FLe(prediction[3], Q(150, 100))
    /\ FGe(prediction[2], Q(65, 100))

\* C5: analyze_game recommends outcome X exactly when X's odds lie in
\* [1.01, 1.50], its adjusted probability is >= 0.65 and no other such
\* outcome has a strictly higher adjusted probability (the first of home,
\* away, draw on equal probabilities); when no outcome meets both conditions
\* it returns recommended = false with a reason.  The result always has the
\* key 'recommended'.
C5_RecommendsBestEligibleOutcome ==
    ReturnedFrom({"analyze_game"})
        => LET P == frame.predictions
               eligible == {i \in DOMAIN P : Eligible(P[i])}
           IN  /\ "recommended" \in DOMAIN result
               /\ result.recommended <=> eligible # {}
               /\ ~result.recommended => "reason" \in DOMAIN result
               /\ result.recommended
                    => \E i \in eligible :
                          /\ result.outcome = P[i][1]
                          /\ result.confidence_score = P[i][2]
                          /\ result.odds = P[i][3]
                          /\ \A j \in eligible :
                                /\ ~FGt(P[j][2], P[i][2])
                                /\ FEq(P[j][2], P[i][2]) => i <= j

\* the quote home 1.30, away 3.50, no draw: home is recommended although
\* its competitor was examined too
C5_Witness ==
    /\ ReturnedFrom({"analyze_game"})
    /\ args.game.home_odds = Q(13, 10)
    /\ args.game.away_odds = Q(35, 10)
    /\ args.game.draw_odds = None
    /\ result.recommended
    /\ result.outcome = "home"
    /\ result.confidence_score = Q(187, 240)

\* the pool passed to the parlay composer that returned
Pool ==
    IF op = "generate_prop_parlay" THEN args.all_props ELSE args.predictions

ParlayOps == {"generate_prop_parlay", "generate_parlays"}

\* entry e of a pool carries 'recommended' = True
MarkedRecommended(e) == "recommended" \in DOMAIN e /\ e.recommended = TRUE

\* leg is pool entry e: the entry itself in a prop parlay, the dict built
\* from the entry's game, outcome, odds and probability in a game parlay
LegIsEntry(leg, e) ==
    IF op = "generate_prop_parlay"
    THEN /\ DOMAIN e = DOMAIN leg
         /\ e = leg
    ELSE /\ "odds" \in DOMAIN e
         /\ leg.sport = e.sport
         /\ leg.home_team = e.home_team
         /\ leg.away_team = e.away_team
         /\ leg.outcome = e.outcome
         /\ leg.odds = e.odds
         /\ leg.probability = e.predicted_probability

\* C6: every parlay returned by generate_prop_parlay and generate_parlays
\* has at least 2 legs, and each leg is an entry of the input pool whose
\* 'recommended' flag is true.
C6_LegsComeFromRecommendedPool ==
    ReturnedFrom(ParlayOps)
        => \A n \in DOMAIN result :
              /\ Len(result[n].legs) >= 2
              /\ \A l \in DOMAIN result[n].legs :
                    \E i \in DOMAIN Pool :
                       /\ MarkedRecommended(Pool[i])
                       /\ LegIsEntry(result[n].legs[l], Pool[i])

\* a parlay was returned from a pool that also holds an entry rejected by
\* its analysis and an entry without the flag
C6_Witness ==
    /\ ReturnedFrom(ParlayOps)
    /\ result # << >>
    /\ \E i \in DOMAIN Pool : "recommended" \notin DOMAIN Pool[i]
    /\ \E i \in DOMAIN Pool :
          "recommended" \in DOMAIN Pool[i] /\ Pool[i].recommended = FALSE

\* C7: with fewer than 2 entries marked recommended in the pool, whatever
\* the number of other entries, both composers return an empty list.
C7_FewerThanTwoGivesNoParlay ==
    (/\ ReturnedFrom(ParlayOps)
     /\ Cardinality({i \in DOMAIN Pool : MarkedRecommended(Pool[i])}) < 2)
        => result = << >>

\* exactly one recommended entry among several others
C7_Witness ==
    /\ ReturnedFrom(ParlayOps)
    /\ Cardinality({i \in DOMAIN Pool : MarkedRecommended(Pool[i])}) = 1
    /\ Len(Pool) >= 3
    /\ result = << >>

TwoOutcomeQuote ==
    /\ ~Truthy(args.game.draw_odds)
    /\ FGt(args.game.home_odds, Zero) \/ FGt(args.game.away_odds, Zero)

\* C9: in analyze_game, for every two-outcome quote (no draw), the
\* normalized home and away probabilities sum to 1 before the home/away
\* perturbation.
C9_TwoOutcomeProbabilitiesSumToOne ==
    (ReturnedFrom({"analyze_game"}) /\ TwoOutcomeQuote)
        => FEq(FAdd(frame.home_prob, frame.away_prob), One)

\* home 1.30, away 3.50, no draw: implied 10/13 + 2/7 = 96/91, normalized
\* 35/48 and 13/48
C9_Witness ==
    /\ ReturnedFrom({"analyze_game"})
    /\ TwoOutcomeQuote
    /\ args.game.home_odds = Q(13, 10)
    /\ args.game.away_odds = Q(35, 10)
    /\ frame.home_prob = Q(35, 48)
    /\ frame.away_prob = Q(13, 48)

\* x clamped into [0.01, 0.99]
Clamped(x) ==
    IF FLt(x, Q(1, 100)) THEN Q(1, 100)
    ELSE IF FGt(x, Q(99, 100)) THEN Q(99, 100) ELSE x

\* C10: in analyze_game the adjusted home probability is the normalized
\* home probability plus 0.05 and the adjusted away probability is the
\* normalized away probability minus 0.05, each clamped into [0.01, 0.99].
C10_HomeAdvantageThenClamp ==
    ReturnedFrom({"analyze_game"})
        => LET home == frame.predictions[1]
               away == frame.predictions[2]
           IN  /\ home[1] = "home" /\ away[1] = "away"
               /\ FEq(home[2], Clamped(FAdd(frame.home_prob, Q(5, 100))))
               /\ FEq(away[2], Clamped(FSub(frame.away_prob, Q(5, 100))))
               /\ FLe(Q(1, 100), home[2]) /\ FLe(home[2], Q(99, 100))
               /\ FLe(Q(1, 100), away[2]) /\ FLe(away[2], Q(99, 100))

\* both clamps act: home above 0.94 is cut to 0.99, away below 0.06 is
\* raised to 0.01
C10_Witness ==
    /\ ReturnedFrom({"analyze_game"})
    /\ FGt(frame.home_prob, Q(94, 100))
    /\ FLt(frame.away_prob, Q(6, 100))
    /\ frame.predictions[1][2] = Q(99, 100)
    /\ frame.predictions[2][2] = Q(1, 100)

\* C11: for two inputs to the player-prop confidence formula that agree on
\* mean, std, line and overall hit rate, the one with the higher recent
\* 5-game hit rate (i/5 and j/5, i <= j) gets a confidence that is not lower.
C11_ConfidenceMonotoneInRecentForm ==
    (ReturnedFrom({"analyze_player_prop"}) /\ TenOrMore)
        => \A conf \in {[i \in 0..5 |->
                            CalculatePropConfidence(frame.avg, frame.std,
                                args.prop_line, frame.hit_rate, Q(i, 5))]} :
              /\ \E i \in 0..5 : /\ frame.recent_hit_rate = Q(i, 5)
                                 /\ frame.confidence = conf[i]
              /\ \A i, j \in 0..5 : i <= j => ~FLt(conf[j], conf[i])

\* a history whose recent form is 3 of 5 and whose confidence rises
\* strictly with the recent form
C11_Witness ==
    /\ ReturnedFrom({"analyze_player_prop"})
    /\ TenOrMore
    /\ frame.recent_hit_rate = Q(3, 5)
    /\ FLt(CalculatePropConfidence(frame.avg, frame.std, args.prop_line,
                                   frame.hit_rate, Q(2, 5)),
           frame.confidence)
    /\ FLt(frame.confidence,
           CalculatePropConfidence(frame.avg, frame.std, args.prop_line,
                                   frame.hit_rate, Q(4, 5)))

\* the positions of the pool's entries marked recommended
RecommendedIdx == {i \in DOMAIN Pool : MarkedRecommended(Pool[i])}

\* the confidence the composer ranks pool entry i by
PoolKey(i) ==
    IF op = "generate_prop_parlay"
    THEN Pool[i].confidence ELSE Pool[i].confidence_score

\* the number of recommended entries ranked before entry i: those of higher
\* confidence, and those of equal confidence earlier in the pool
RankOf(i) ==
    Cardinality({j \in RecommendedIdx :
                    \/ FGt(PoolKey(j), PoolKey(i))
                    \/ FEq(PoolKey(j), PoolKey(i)) /\ j < i})

\* the k recommended entries of highest confidence
TopK(k) == {i \in RecommendedIdx : RankOf(i) < k}

\* the products <<probability, odds>> over the pool entries at the positions
\* S, times p and o: a prop entry has a confidence and no odds
RECURSIVE ProdPairFrom(_, _, _)
ProdPairFrom(S, p, o) ==
    IF S = {} THEN <<p, o>>
    ELSE LET i == CHOOSE x \in S : TRUE
         IN  IF op = "generate_prop_parlay"
             THEN ProdPairFrom(S \ {i}, FMul(Pool[i].confidence, p), o)
             ELSE ProdPairFrom(S \ {i},
                               FMul(Pool[i].predicted_probability, p),
                               FMul(Pool[i].odds, o))

ProdPair(S) == ProdPairFrom(S, One, One)

\* the sizes for which a composer builds a candidate: from 5 to max_legs
\* (props), from 2 to 5 (games), and no more than the recommended entries
Sizes ==
    IF op = "generate_prop_parlay"
    THEN 5..Min2(Cardinality(RecommendedIdx), args.max_legs)
    ELSE 2..Min2(Cardinality(RecommendedIdx), 5)

\* the products of the size-k candidate, for every size
Candidates ==
    LET rank == CHOOSE r \in {[i \in RecommendedIdx |-> RankOf(i)]} : TRUE
    IN  [k \in Sizes |-> ProdPair({i \in DOMAIN rank : rank[i] < k})]

\* a candidate with the products c passes the composer's test
Survives(c) ==
    IF op = "generate_prop_parlay"
    THEN FGe(c[1], Q(90, 100))
    ELSE FGe(c[1], Q(40, 100)) /\ FLe(c[2], Q(10, 1))

\* the value a candidate with the products c is ranked by: the combined
\* confidence of a prop parlay, the expected value (to 3 places) of a game
\* parlay
CandidateKey(c) ==
    IF op = "generate_prop_parlay"
    THEN c[1] ELSE PyRound(FSub(FMul(c[1], c[2]), One), 3)

\* the value a returned parlay is ranked by
ParlayKey(parlay) ==
    IF op = "generate_prop_parlay"
    THEN parlay.combined_confidence ELSE parlay.expected_value

\* a parlay of k legs is in the returned list
Returned(k) ==
    \E n \in DOMAIN result :
        result[n].num_legs = k /\ Len(result[n].legs) = k

\* the surviving candidates ranked before the size-k one: a higher key, or
\* an equal key and fewer legs
SurvivorsBefore(cand, k) ==
    {j \in DOMAIN cand :
        /\ Survives(cand[j])
        /\ \/ FGt(CandidateKey(cand[j]), CandidateKey(cand[k]))
           \/ FEq(CandidateKey(cand[j]), CandidateKey(cand[k])) /\ j < k}

\* C12 as stated: generate_prop_parlay returns the size-k candidate exactly
\* when the product of the confidences of its k legs is >= 0.90; a candidate
\* whose product is below 0.90 is discarded (6 recommended props of
\* confidence 0.95 yield an empty result).
C12_ReturnedExactlyWhenAboveFloor ==
    ReturnedFrom({"generate_prop_parlay"})
        => \A cand \in {Candidates} :
              /\ \A n \in DOMAIN result : result[n].num_legs \in DOMAIN cand
              /\ \A k \in DOMAIN cand :
                    Returned(k) <=> FGe(cand[k][1], Q(90, 100))

\* C12 amended: the size-k candidate is returned exactly when the product
\* of the confidences of its k legs is >= 0.90 and fewer than 5 candidates
\* with a product >= 0.90 rank before it; a candidate whose product is below
\* 0.90 is always discarded.
C12_ReturnedWhenAboveFloorAndInTopFive ==
    ReturnedFrom({"generate_prop_parlay"})
        => \A cand \in {Candidates} :
              /\ \A n \in DOMAIN result : result[n].num_legs \in DOMAIN cand
              /\ \A k \in DOMAIN cand :
                    Returned(k)
                      <=> /\ FGe(cand[k][1], Q(90, 100))
                          /\ Cardinality(SurvivorsBefore(cand, k)) < 5

\* ten props of confidence 0.99 with max_legs = 10: the six candidates of 5
\* to 10 legs all reach 0.90 and the one of 10 legs is not returned
C12_Witness ==
    /\ ReturnedFrom({"generate_prop_parlay"})
    /\ Sizes = 5..10
    /\ \A k \in Sizes : FGe(Candidates[k][1], Q(90, 100))
    /\ \A k \in 5..9 : Returned(k)
    /\ ~Returned(10)

\* C13: generate_parlays returns the size-k candidate exactly when the
\* product of its legs' predicted probabilities is >= 0.40 and the product
\* of its legs' odds is <= 10.0; so a pool whose two highest-confidence
\* recommended entries satisfy both bounds yields a non-empty result, each
\* parlay carrying legs, total_odds and combined_probability.
C13_ReturnedExactlyWhenViable ==
    ReturnedFrom({"generate_parlays"})
        => \A cand \in {Candidates} :
              /\ \A n \in DOMAIN result :
                    /\ result[n].num_legs \in DOMAIN cand
                    /\ {"legs", "total_odds", "combined_probability"}
                           \subseteq DOMAIN result[n]
              /\ \A k \in DOMAIN cand :
                    Returned(k) <=> /\ FGe(cand[k][1], Q(40, 100))
                                    /\ FLe(cand[k][2], Q(10, 1))
              /\ (/\ 2 \in DOMAIN cand
                  /\ FGe(cand[2][1], Q(40, 100))
                  /\ FLe(cand[2][2], Q(10, 1)))
                    => result # << >>

\* the 2-leg and 3-leg candidates are returned and the 4-leg one is dropped
\* for odds above 10.0 alone
C13_Witness ==
    /\ ReturnedFrom({"generate_parlays"})
    /\ Returned(2)
    /\ Returned(3)
    /\ 4 \in Sizes
    /\ ~Returned(4)
    /\ FGe(Candidates[4][1], Q(40, 100))
    /\ FGt(Candidates[4][2], Q(10, 1))

C15_NoDivisionByZero ==
    (ReturnedFrom(PropOps) /\ TenOrMore)
        => /\ "confidence" \in DOMAIN result
           /\ IsFinite(result.confidence)
           /\ IsFinite(frame.confidence)

ConstantHistoryAboveLine ==
    /\ TenOrMore
    /\ \A i \in DOMAIN args.stats.games :
          args.stats.games[i] = args.stats.games[1]
    /\ FGt(args.prop_line, Zero)
    /\ FGe(Q(args.stats.games[1], 1), FMul(Q(115, 100), args.prop_line))

\* C17: for n >= 10 identical samples of value v and a line L with L > 0
\* and v >= 1.15 * L, analyze_player_prop computes margin_score 0.30,
\* hit_score 0.25, recent_score 0.30 and consistency_score 0.15 (std = 0),
\* a total of 1.00 capped to confidence 0.99, and recommended = true.
C17_ConstantHistoryScoresTheCap ==
    (ReturnedFrom({"analyze_player_prop"}) /\ ConstantHistoryAboveLine)
        => /\ frame.std = Zero
           /\ frame.scores.margin_score = Q(30, 100)
           /\ frame.scores.hit_score = Q(25, 100)
           /\ frame.scores.recent_score = Q(30, 100)
           /\ frame.scores.consistency_score = Q(15, 100)
           /\ frame.scores.total_confidence = One
           /\ result.recommended = TRUE
           /\ result.confidence = Q(99, 100)

\* 15 samples of 30 against the line 20.5: mean 30, hit rates 1
C17_Witness ==
    /\ ReturnedFrom({"analyze_player_prop"})
    /\ ConstantHistoryAboveLine
    /\ args.stats.games = [i \in 1..15 |-> 30]
    /\ args.prop_line = Q(205, 10)
    /\ frame.avg = Q(30, 1)
    /\ frame.hit_rate = One
    /\ frame.recent_hit_rate = One
    /\ result.confidence = Q(99, 100)
    /\ result.recommended = TRUE

\* the quote has no draw market and positive prices for home and away
TwoOutcomePositiveQuote ==
    /\ ~Truthy(args.game.draw_odds)
    /\ FGt(args.game.home_odds, Zero)
    /\ FGt(args.game.away_odds, Zero)

\* the de-margined home probability of the quote plus 0.05
DemarginedHomePlusAdvantage ==
    LET home == FDiv(One, args.game.home_odds)
        away == FDiv(One, args.game.away_odds)
    IN  FAdd(FDiv(home, FAdd(home, away)), Q(5, 100))

\* the home odds lie in [1.01, 1.50]
HomeOddsInBand ==
    FLe(Q(101, 100), args.game.home_odds) /\ FLe(args.game.home_odds, Q(150, 100))

\* C18 as stated: for a two-outcome quote with positive odds the home
\* confidence is the de-margined home probability plus 0.05 (0.779 for
\* home 1.30, away 3.50), and home is recommended when that value is >= 0.65
\* and the home odds are in [1.01, 1.50].
C18_HomeConfidenceIsDemarginedPlusAdvantage ==
    (ReturnedFrom({"analyze_game"}) /\ TwoOutcomePositiveQuote)
        => \A value \in {DemarginedHomePlusAdvantage} :
              /\ FEq(frame.predictions[1][2], value)
              /\ (FGe(value, Q(65, 100)) /\ HomeOddsInBand)
                    => /\ result.recommended = TRUE
                       /\ result.outcome = "home"
                       /\ FEq(result.confidence_score, value)

\* C18 amended: the home confidence is the de-margined home probability
\* plus 0.05, capped at 0.99, and home is recommended with that confidence
\* when it is >= 0.65 and the home odds are in [1.01, 1.50].
C18_HomeConfidenceIsDemarginedPlusAdvantageCapped ==
    (ReturnedFrom({"analyze_game"}) /\ TwoOutcomePositiveQuote)
        => \A value \in {DemarginedHomePlusAdvantage} :
              \A capped \in {IF FGt(value, Q(99, 100)) THEN Q(99, 100) ELSE value} :
                 /\ FEq(frame.predictions[1][2], capped)
                 /\ (FGe(capped, Q(65, 100)) /\ HomeOddsInBand)
                       => /\ result.recommended = TRUE
                          /\ result.outcome = "home"
                          /\ FEq(result.confidence_score, capped)
                 /\ (args.game.home_odds = Q(13, 10)
                        /\ args.game.away_odds = Q(35, 10))
                       => /\ result.recommended = TRUE
                          /\ result.outcome = "home"
                          /\ FEq(result.confidence_score,
                                 FAdd(Q(35, 48), Q(5, 100)))

\* home 1.01 against away 1000: the de-margined home probability plus 0.05
\* is above 1 and home is recommended with confidence 0.99
C18_Witness ==
    /\ ReturnedFrom({"analyze_game"})
    /\ TwoOutcomePositiveQuote
    /\ args.game.home_odds = Q(101, 100)
    /\ args.game.away_odds = Q(1000, 1)
    /\ FGt(DemarginedHomePlusAdvantage, One)
    /\ result.recommended = TRUE
    /\ result.outcome = "home"
    /\ result.confidence_score = Q(99, 100)

\* C19: calculate_implied_probability(o) returns 1/o for every o > 0 (1.5
\* gives 2/3, 2.0 gives 0.5, 4.0 gives 0.25) and returns 0, without
\* faulting, for every o <= 0.
C19_ImpliedProbabilityIsReciprocalOrZero ==
    ReturnedFrom({"calculate_implied_probability"})
        => /\ IsFinite(result)
           /\ FGt(args.odds, Zero) => FEq(FMul(result, args.odds), One)
           /\ FLe(args.odds, Zero) => result = Zero
           /\ args.odds = Q(15, 10) => result = Q(2, 3)
           /\ args.odds = Q(2, 1) => result = Q(1, 2)
           /\ args.odds = Q(4, 1) => result = Q(1, 4)

\* the conversion of a negative price returned 0
C19_Witness ==
    /\ ReturnedFrom({"calculate_implied_probability"})
    /\ FLt(args.odds, Zero)
    /\ result = Zero

\* -1, 0, 1 as the finite x is negative, zero, positive
Sign(x) == IF FLt(x, Zero) THEN -1 ELSE IF FGt(x, Zero) THEN 1 ELSE 0

\* C20: calculate_value(p, o) equals p minus the implied probability of o;
\* for o > 0 it is positive exactly when p > 1/o and negative exactly when
\* p < 1/o (0.7 at odds 1.5 is positive, 0.4 at odds 1.5 is negative), so
\* its sign agrees with the sign of p * o - 1.
C20_ValueIsEdgeOverImplied ==
    ReturnedFrom({"calculate_value"})
        => /\ FEq(FAdd(result,
                       IF FGt(args.odds, Zero)
                       THEN FDiv(One, args.odds) ELSE Zero),
                  args.predicted_prob)
           /\ FGt(args.odds, Zero)
                 => /\ FGt(result, Zero)
                        <=> FGt(FMul(args.predicted_prob, args.odds), One)
                    /\ FLt(result, Zero)
                        <=> FLt(FMul(args.predicted_prob, args.odds), One)
                    /\ Sign(result)
                         = Sign(FSub(FMul(args.predicted_prob, args.odds), One))
           /\ (args.predicted_prob = Q(7, 10) /\ args.odds = Q(15, 10))
                 => FGt(result, Zero)
           /\ (args.predicted_prob = Q(4, 10) /\ args.odds = Q(15, 10))
                 => FLt(result, Zero)

\* 0.4 at odds 1.5: the value 0.4 - 2/3 is negative
C20_Witness ==
    /\ ReturnedFrom({"calculate_value"})
    /\ args.predicted_prob = Q(4, 10)
    /\ args.odds = Q(15, 10)
    /\ result = Q(-4, 15)

\* C21: with n recommended entries, a composer builds exactly one candidate
\* per size k from 5 (generate_prop_parlay) or 2 (generate_parlays) up to
\* min(n, max legs); the size-k candidate consists of exactly the k entries
\* of highest confidence, entries of equal confidence in input order; every
\* returned parlay has the legs of the candidate of its size; a pool with 2
\* to 4 recommended props yields no prop parlay.
C21_CandidatesAreTopKPerSize ==
    ReturnedFrom(ParlayOps)
        => \A rank \in {[i \in RecommendedIdx |-> RankOf(i)]} :
              /\ Len(frame.candidates) = Cardinality(Sizes)
              /\ {frame.candidates[c].size : c \in DOMAIN frame.candidates}
                     = Sizes
              /\ \A c \in DOMAIN frame.candidates :
                    /\ Len(frame.candidates[c].legs) = frame.candidates[c].size
                    /\ {frame.candidates[c].legs[l] :
                            l \in DOMAIN frame.candidates[c].legs}
                          = {Pool[i] : i \in {j \in DOMAIN rank :
                                          rank[j] < frame.candidates[c].size}}
              /\ \A n \in DOMAIN result :
                    \E c \in DOMAIN frame.candidates :
                        /\ frame.candidates[c].size = result[n].num_legs
                        /\ Len(result[n].legs) = result[n].num_legs
                        /\ \A l \in DOMAIN result[n].legs :
                              LegIsEntry(result[n].legs[l],
                                         frame.candidates[c].legs[l])
              /\ (op = "generate_prop_parlay"
                     /\ Cardinality(RecommendedIdx) \in 2..4)
                    => (result = << >> /\ frame.candidates = << >>)

\* a returned prop parlay of 5 legs chosen among more recommended props of
\* one confidence, where an equally confident later entry is left out
C21_Witness ==
    /\ ReturnedFrom({"generate_prop_parlay"})
    /\ Returned(5)
    /\ \E i, j \in RecommendedIdx :
          /\ i < j
          /\ FEq(PoolKey(i), PoolKey(j))
          /\ RankOf(i) < 5
          /\ RankOf(j) >= 5

\* 1 / confidence clamped into [1.10, 1.50], 1.50 when the confidence is not
\* positive
ClampedReciprocal(confidence) ==
    IF ~FGt(confidence, Zero) THEN Q(150, 100)
    ELSE LET r == FDiv(One, confidence)
         IN  IF FLt(r, Q(110, 100)) THEN Q(110, 100)
             ELSE IF FGt(r, Q(150, 100)) THEN Q(150, 100) ELSE r

\* the product of the clamped reciprocals of the first n legs
RECURSIVE ClampedReciprocalProduct(_, _)
ClampedReciprocalProduct(legs, n) ==
    IF n = 0 THEN One
    ELSE FMul(ClampedReciprocalProduct(legs, n - 1),
              ClampedReciprocal(legs[n].confidence))

\* x to the power k
RECURSIVE FPow(_, _)
FPow(x, k) == IF k = 0 THEN One ELSE FMul(x, FPow(x, k - 1))

\* C22: for every parlay returned by generate_prop_parlay, estimated_odds is
\* the product over its legs of 1 / confidence clamped into [1.10, 1.50]
\* (1.50 when the confidence is not positive), so it lies in
\* [1.10^k, 1.50^k] for k legs, and expected_value is
\* combined_confidence * estimated_odds - 1.
C22_EstimatedOddsAreClampedReciprocals ==
    ReturnedFrom({"generate_prop_parlay"})
        => \A n \in DOMAIN result :
              \A eo \in {ClampedReciprocalProduct(result[n].legs,
                                                  Len(result[n].legs))} :
                 /\ FEq(result[n].estimated_odds, eo)
                 /\ FGe(result[n].estimated_odds,
                        FPow(Q(110, 100), result[n].num_legs))
                 /\ FLe(result[n].estimated_odds,
                        FPow(Q(150, 100), result[n].num_legs))
                 /\ FEq(result[n].expected_value,
                        FSub(FMul(result[n].combined_confidence,
                                  result[n].estimated_odds), One))

\* a returned parlay of 5 legs of confidence 0.98: every reciprocal is
\* raised to 1.10, the estimated odds are 1.61051 and the expected value is
\* 0.9039207968 * 1.61051 - 1
C22_Witness ==
    /\ ReturnedFrom({"generate_prop_parlay"})
    /\ \E n \in DOMAIN result :
          /\ result[n].num_legs = 5
          /\ \A l \in 1..5 : FEq(result[n].legs[l].confidence, Q(98, 100))
          /\ FEq(result[n].estimated_odds, Q(161051, 100000))
          /\ FGt(result[n].expected_value, Q(4557, 10000))
          /\ FLt(result[n].expected_value, Q(4558, 10000))

\* the window of an analysis: 20 games of a player, 15 of a team
Window == IF op = "analyze_player_prop" THEN 20 ELSE 15

\* the most recent min(n, w) samples of a history of n samples
RecentSamples(games, w) ==
    [i \in 1..Min2(Len(games), w) |->
        games[Len(games) - Min2(Len(games), w) + i]]

\* the number of samples strictly greater than the line
StrictlyAbove(samples, line) ==
    Cardinality({i \in DOMAIN samples : FLt(line, Q(samples[i], 1))})

\* the analysis of the history cut down to the samples recent
AnalysisOf(recent) ==
    IF op = "analyze_player_prop"
    THEN PlayerPropResult(advanced, [args.stats EXCEPT !.games = recent],
             args.prop_line, args.prop_type,
             PlayerPropFrame(advanced, [args.stats EXCEPT !.games = recent],
                             args.prop_line))
    ELSE TeamStatResult(advanced, [args.stats EXCEPT !.games = recent],
             args.prop_line, args.prop_type,
             TeamStatFrame(advanced, [args.stats EXCEPT !.games = recent],
                           args.prop_line))

\* C23: in analyze_player_prop (window 20) and analyze_team_stat_prop
\* (window 15) the statistics are those of the most recent min(n, window)
\* samples: the hit rate is the number of those samples strictly greater
\* than the line over their number (a sample equal to the line is no hit),
\* the result is that of the history without its older samples, and the
\* recent hit rate of a player prop is the number of the last 5 samples
\* strictly greater than the line over 5.
C23_StatisticsOverRecentWindow ==
    (ReturnedFrom(PropOps) /\ TenOrMore)
        => \A recent \in {RecentSamples(args.stats.games, Window)} :
              /\ frame.values = recent
              /\ FEq(frame.avg, Q(SumSeq(recent), Len(recent)))
              /\ FEq(frame.hit_rate,
                     Q(StrictlyAbove(recent, args.prop_line), Len(recent)))
              /\ op = "analyze_player_prop"
                    => FEq(frame.recent_hit_rate,
                           Q(StrictlyAbove(RecentSamples(args.stats.games, 5),
                                           args.prop_line), 5))
              /\ result = AnalysisOf(recent)

\* a history longer than the window whose older samples are above the line
\* and whose window samples all equal the line: the hit rate is 0
C23_Witness ==
    /\ ReturnedFrom(PropOps)
    /\ TenOrMore
    /\ Len(args.stats.games) > Window
    /\ FGt(Q(args.stats.games[1], 1), args.prop_line)
    /\ \A i \in DOMAIN frame.values :
          FEq(Q(frame.values[i], 1), args.prop_line)
    /\ frame.hit_rate = Zero

\* the outcomes of the analysed game whose adjusted probability is at least
\* the minimum confidence
ConfidentOutcomes ==
    {i \in DOMAIN frame.predictions :
        FGe(frame.predictions[i][2], Q(65, 100))}

\* C24: with a minimum confidence of 0.65 and a home advantage of 0.05, at
\* most one of home, away and draw has an adjusted probability >= 0.65 in
\* analyze_game, whatever the odds quote: two eligible outcomes never
\* compete, and the outcome returned is the eligible one.
C24_AtMostOneConfidentOutcome ==
    ReturnedFrom({"analyze_game"})
        => /\ Cardinality(ConfidentOutcomes) <= 1
           /\ Cardinality({i \in DOMAIN frame.predictions :
                  MeetsCriteria(frame.predictions[i][2],
                                frame.predictions[i][3])}) <= 1
           /\ result.recommended
                 => \A i \in ConfidentOutcomes :
                       result.outcome = frame.predictions[i][1]

\* a three-outcome quote where the away side alone reaches 0.65 after the
\* adjustment and is recommended
C24_Witness ==
    /\ ReturnedFrom({"analyze_game"})
    /\ Len(frame.predictions) = 3
    /\ ConfidentOutcomes = {2}
    /\ result.recommended
    /\ result.outcome = "away"

\* C25: the confidence of analyze_team_stat_prop never exceeds 0.90, so it
\* returns recommended = true only when every sample of the window is
\* strictly above the line (hit rate 1) and the mean of the window is at
\* least 1.2 times the line (margin >= 0.20), and every recommended
\* team-stat result has confidence exactly 0.90.
C25_TeamStatRecommendedOnlyAtTheCap ==
    (ReturnedFrom({"analyze_team_stat_prop"}) /\ TenOrMore)
        => \A recent \in {RecentSamples(args.stats.games, 15)} :
              /\ FLe(frame.confidence, Q(90, 100))
              /\ result.recommended
                    => /\ \A i \in DOMAIN recent :
                             FGt(Q(recent[i], 1), args.prop_line)
                       /\ FEq(frame.hit_rate, One)
                       /\ FGe(Q(SumSeq(recent), Len(recent)),
                              FMul(Q(12, 10), args.prop_line))
                       /\ FGe(frame.margin, Q(20, 100))
                       /\ FEq(result.confidence, Q(90, 100))

\* a recommended team stat whose window mean is exactly 1.2 times the line
C25_Witness ==
    /\ ReturnedFrom({"analyze_team_stat_prop"})
    /\ TenOrMore
    /\ result.recommended
    /\ FEq(frame.avg, FMul(Q(12, 10), args.prop_line))
    /\ FEq(result.confidence, Q(90, 100))

\* C26: for non-negative samples and a positive line, analyze_player_prop
\* returns recommended = true only if at least 4 of the 5 most recent
\* samples are strictly above the line (recent hit rate >= 0.8): the margin,
\* hit-rate and consistency scores contribute at most
\* 0.30 + 0.25 + 0.15 = 0.70 of the 0.90 required.
C26_RecommendedNeedsFourOfLastFive ==
    (/\ ReturnedFrom({"analyze_player_prop"})
     /\ TenOrMore
     /\ \A i \in DOMAIN args.stats.games : args.stats.games[i] >= 0
     /\ FGt(args.prop_line, Zero))
        => /\ FLe(frame.scores.margin_score, Q(30, 100))
           /\ FLe(frame.scores.hit_score, Q(25, 100))
           /\ FLe(frame.scores.consistency_score, Q(15, 100))
           /\ FLe(FAdd(FAdd(frame.scores.margin_score,
                            frame.scores.hit_score),
                       frame.scores.consistency_score), Q(70, 100))
           /\ result.recommended
                 => /\ StrictlyAbove(RecentSamples(args.stats.games, 5),
                                     args.prop_line) >= 4
                    /\ FGe(frame.recent_hit_rate, Q(8, 10))

\* a recommended player prop with exactly 4 of the last 5 samples above the
\* line
C26_Witness ==
    /\ ReturnedFrom({"analyze_player_prop"})
    /\ TenOrMore
    /\ FGt(args.prop_line, Zero)
    /\ result.recommended
    /\ StrictlyAbove(RecentSamples(args.stats.games, 5), args.prop_line) = 4
    /\ FLt(frame.confidence, Q(99, 100))

\* prediction a of the daily pool is ranked before prediction b: a higher
\* confidence, or the same confidence and an earlier game
RankedBefore(a, b) ==
    \/ FGt(frame.predictions[a].confidence_score,
           frame.predictions[b].confidence_score)
    \/ /\ FEq(frame.predictions[a].confidence_score,
               frame.predictions[b].confidence_score)
       /\ a < b

\* the daily update stored a parlay of k legs
Stored(k) ==
    \E n \in DOMAIN frame.parlays :
        frame.parlays[n].num_legs = k /\ Len(frame.parlays[n].legs) = k

\* C27: when the pool passed to generate_parlays consists of results of
\* analyze_game, as in daily_update, and at least 2 of them are recommended,
\* the returned list is not empty and contains the 2-leg parlay of the two
\* bets of highest confidence: every recommended leg has a probability
\* >= 0.65 and odds in [1.01, 1.50], and for such pools the ceiling of 10.0
\* on the combined odds discards no candidate of up to 5 legs (a candidate
\* is kept exactly when its combined probability is >= 0.40).
C27_PipelineYieldsTheTwoLegParlay ==
    (ReturnedFrom({"daily_update"}) /\ Len(frame.predictions) >= 2)
        => /\ \A i \in DOMAIN frame.predictions :
                 /\ frame.predictions[i].recommended
                 /\ FGe(frame.predictions[i].predicted_probability,
                        Q(65, 100))
                 /\ FGe(frame.predictions[i].odds, Q(101, 100))
                 /\ FLe(frame.predictions[i].odds, Q(150, 100))
           /\ frame.parlays # << >>
           /\ \E n \in DOMAIN frame.parlays :
                 /\ frame.parlays[n].num_legs = 2
                 /\ Len(frame.parlays[n].legs) = 2
                 /\ \E i, j \in DOMAIN frame.predictions :
                       /\ i # j
                       /\ RankedBefore(i, j)
                       /\ \A k \in DOMAIN frame.predictions \ {i, j} :
                             RankedBefore(j, k)
                       /\ LegIsEntry(frame.parlays[n].legs[1],
                                     frame.predictions[i])
                       /\ LegIsEntry(frame.parlays[n].legs[2],
                                     frame.predictions[j])
           /\ \A c \in DOMAIN frame.candidates :
                 \A legs \in {frame.candidates[c].legs} :
                    /\ FLe(NpProd([l \in DOMAIN legs |-> legs[l].odds]),
                           Q(10, 1))
                    /\ Stored(frame.candidates[c].size)
                          <=> FGe(NpProd([l \in DOMAIN legs |->
                                         legs[l].predicted_probability]),
                                  Q(40, 100))

\* a daily update with five recommended favourites at odds 1.5: the 5-leg
\* candidate has combined odds 1.5^5 = 7.59 and is stored next to the 2-leg
\* parlay
C27_Witness ==
    /\ ReturnedFrom({"daily_update"})
    /\ Len(frame.predictions) = 5
    /\ Stored(2)
    /\ \E n \in DOMAIN frame.parlays :
          /\ frame.parlays[n].num_legs = 5
          /\ frame.parlays[n].total_odds = Q(759, 100)

=============================================================================
